---- MODULE Spec2Model ----
(***************************************************************************)
(* Model of uc_well_graded.py: union-closed families of finite sets, their *)
(* surmise systems, bases, projections and the well-gradedness and         *)
(* X-closedness predicates.                                                *)
(*                                                                         *)
(* A Python frozenset is a TLA+ set of elements; a family (a Python set of *)
(* frozensets) is a set of such sets.  Iterating a Python set visits its   *)
(* members in an order the program does not control, so every loop whose   *)
(* body reads state written by an earlier iteration takes its next member  *)
(* by \E.                                                                  *)
(***************************************************************************)
EXTENDS Integers, FiniteSets, Sequences

VARIABLES pc, base, uc_fam, curr_size, prev_size, sizes,
          sets, X, todo, out, verdict,
          q, qtodo, scanned, q_surmise, surmise, result

vars == <<pc, base, uc_fam, curr_size, prev_size, sizes,
          sets, X, todo, out, verdict,
          q, qtodo, scanned, q_surmise, surmise, result>>

closureVars == <<base, uc_fam, curr_size, prev_size, sizes>>
wgVars      == <<todo, out>>
surmiseVars == <<q, qtodo, scanned, q_surmise, surmise, result>>

----------------------------------------------------------------------------
(* Bounds of the model. *)

\* size of the ground set of elements
N == 3
\* largest number of generators of a base handed to create_family_from_base
MaxBase == 4
\* largest number of generators of a base handed to the is_well_graded loop
MaxGen == 3
\* largest number of members of a family handed to get_surmise / is_X_closed
MaxFam == 3

Ground == 1..N

Families(k) == {F \in SUBSET (SUBSET Ground) : Cardinality(F) <= k}

NoSurmise == [e \in {} |-> {}]

----------------------------------------------------------------------------
(* Pure functions of the program. *)

\* is_union_closed: every union of two distinct members is a member
is_union_closed(F) ==
    ~ \E A \in F : \E B \in F \ {A} : (A \cup B) \notin F

\* (faulty variant of XViolation: X <= inter in place of X < inter)
XViolationLoose(F, Y, A) ==
    \E B \in F \ {A} :
        LET inter == A \cap B
        IN  Y \subseteq inter /\ inter \notin F

\* is_X_closed, lines 67-70: the inner loop for one A finds a B whose
\* intersection with A strictly contains Y (Python's X < inter) and is no
\* member of F
XViolation(F, Y, A) ==
    \E B \in F \ {A} :
        LET inter == A \cap B
        IN  (Y \subseteq inter /\ Y # inter) /\ inter \notin F

\* (faulty variant of project_family: intersection in place of difference)
project_family_keep(F, Y) == {A \cap Y : A \in F}

\* project_family: { A \ Y : A in F }
project_family(F, Y) == {A \ Y : A \in F}

\* The inner loop of get_surmise (lines 113-124) for one curr_set containing
\* q: the set of values q_surmise can have afterwards, over every order in
\* which `for sur_set in q_surmise.copy()` can visit the copy.  `rest` is the
\* part of the copy not visited yet, `qs` the current q_surmise.
\* (faulty variant of inner_scan: a retained set that curr_set is a strict
\* subset of is not removed)
RECURSIVE inner_scan_keep(_, _, _)
inner_scan_keep(curr_set, rest, qs) ==
    IF rest = {}
    THEN {qs \cup {curr_set}}
    ELSE UNION {
           IF sur_set \subseteq curr_set /\ curr_set # sur_set
           THEN {qs}
           ELSE inner_scan_keep(curr_set, rest \ {sur_set}, qs)
           : sur_set \in rest }

RECURSIVE inner_scan(_, _, _)
inner_scan(curr_set, rest, qs) ==
    IF rest = {}
    THEN {qs \cup {curr_set}}
    ELSE UNION {
           IF curr_set \subseteq sur_set /\ curr_set # sur_set
           THEN inner_scan(curr_set, rest \ {sur_set}, qs \ {sur_set})
           ELSE IF sur_set \subseteq curr_set /\ curr_set # sur_set
                THEN {qs}
                ELSE inner_scan(curr_set, rest \ {sur_set}, qs)
           : sur_set \in rest }

\* one iteration of `for curr_set in sets` for element e
q_scan(e, curr_set, qs) ==
    IF e \in curr_set
    THEN IF Cardinality(qs) > 0
         THEN inner_scan(curr_set, qs, qs)
         ELSE {qs \cup {curr_set}}
    ELSE {qs}

\* the whole `for curr_set in sets` loop for element e, along one order
RECURSIVE scan_all(_, _, _)
scan_all(e, rest, qs) ==
    IF rest = {}
    THEN qs
    ELSE LET curr_set == CHOOSE s \in rest : TRUE
         IN  scan_all(e, rest \ {curr_set},
                      CHOOSE r \in q_scan(e, curr_set, qs) : TRUE)

\* get_surmise as a function of its argument (one scan order)
get_surmise(F) == [e \in UNION F |-> scan_all(e, F, {})]

\* has_unique_atoms, lines 147-156: the number of (element, set) pairs of the
\* surmise against the number of distinct sets
RECURSIVE surmise_count(_, _)
surmise_count(s, keys) ==
    IF keys = {}
    THEN 0
    ELSE LET k == CHOOSE k \in keys : TRUE
         IN  Cardinality(s[k]) + surmise_count(s, keys \ {k})

surmise_sets(s) == UNION {s[k] : k \in DOMAIN s}

\* (faulty variant of unique_atoms_verdict: >= in place of ==)
unique_atoms_verdict_ge(s) ==
    surmise_count(s, DOMAIN s) >= Cardinality(surmise_sets(s))

unique_atoms_verdict(s) ==
    surmise_count(s, DOMAIN s) = Cardinality(surmise_sets(s))

has_unique_atoms(F) == unique_atoms_verdict(get_surmise(F))

\* (faulty variant of base_of_surmise: each set replaces base instead of
\* being added to it)
base_of_surmise_last(s) ==
    IF surmise_sets(s) = {} THEN {} ELSE {CHOOSE A \in surmise_sets(s) : TRUE}

\* get_base, lines 133-137
base_of_surmise(s) == UNION {s[k] : k \in DOMAIN s}

\* (faulty variant of is_well_graded: the family is tested unprojected)
is_well_graded_unprojected(F, B) ==
    \A b \in B : has_unique_atoms(F)

\* is_well_graded's return value
is_well_graded(F, B) ==
    \A b \in B : has_unique_atoms(project_family(F, b))

\* the name of a projection in a report line: 'F\{' + ','.join(...) + '}';
\* a frozenset of small integers is iterated in ascending order
RECURSIVE join_elems(_)
join_elems(b) ==
    IF b = {}
    THEN <<>>
    ELSE LET m == CHOOSE m \in b : \A n \in b : m <= n
         IN  <<m>> \o join_elems(b \ {m})

curr_proj_str(b) == [open |-> "F\\{", elems |-> join_elems(b), close |-> "}"]

\* (faulty variant of LoopCond: an if in place of the while)
LoopCondOnce(curr, prev) == curr > prev /\ prev = 0

\* create_family_from_base: the loop condition, one pass, the loop

LoopCond(curr, prev) == curr > prev

\* (faulty variant of union_pass: a ranges over base, not over prev_fam)
union_pass_base_only(prev_fam, B, fam) ==
    fam \cup {a \cup b : a \in B, b \in B}

union_pass(prev_fam, B, fam) ==
    fam \cup {a \cup b : a \in prev_fam, b \in B}

RECURSIVE closure_loop(_, _, _, _)
closure_loop(fam, B, curr, prev) ==
    IF LoopCond(curr, prev)
    THEN LET next_fam == union_pass(fam, B, fam)
         IN  closure_loop(next_fam, B, Cardinality(next_fam), curr)
    ELSE fam

create_family_from_base(B) == closure_loop(B, B, Cardinality(B), 0)

----------------------------------------------------------------------------
(* Specification Spec: main's create_family_from_base(base), then          *)
(* is_well_graded(uc_fam, base).                                           *)

\* the state before any function is called
Init ==
    /\ pc = "start"
    /\ base = {} /\ uc_fam = {} /\ curr_size = 0 /\ prev_size = 0
    /\ sizes = <<>>
    /\ sets = {} /\ X = {} /\ todo = {} /\ out = <<>> /\ verdict = FALSE
    /\ q = 0 /\ qtodo = {} /\ scanned = {} /\ q_surmise = {}
    /\ surmise = NoSurmise /\ result = {}

\* create_family_from_base(B) is entered: lines 213-215
CallCreateFamily ==
    /\ pc = "start"
    /\ \E B \in Families(MaxBase) :
          /\ base' = B
          /\ uc_fam' = B
          /\ curr_size' = Cardinality(B)
          /\ sizes' = <<Cardinality(B)>>
    /\ prev_size' = 0
    /\ pc' = "closure"
    /\ UNCHANGED <<sets, X, verdict, wgVars, surmiseVars>>

ClosurePass ==
    /\ pc = "closure"
    /\ LoopCond(curr_size, prev_size)
    /\ uc_fam' = union_pass(uc_fam, base, uc_fam)
    /\ prev_size' = curr_size
    /\ curr_size' = Cardinality(uc_fam')
    /\ sizes' = Append(sizes, Cardinality(uc_fam'))
    /\ UNCHANGED <<pc, base, sets, X, verdict, wgVars, surmiseVars>>

ClosureReturn ==
    /\ pc = "closure"
    /\ ~ LoopCond(curr_size, prev_size)
    /\ pc' = "returned"
    /\ UNCHANGED <<closureVars, sets, X, verdict, wgVars, surmiseVars>>

CheckWellGraded ==
    /\ pc = "returned"
    /\ verdict' = is_well_graded(uc_fam, base)
    /\ pc' = "checked"
    /\ UNCHANGED <<closureVars, sets, X, wgVars, surmiseVars>>

Next == CallCreateFamily \/ ClosurePass \/ ClosureReturn \/ CheckWellGraded

Spec == Init /\ [][Next]_vars

\* the program runs on: a loop that can make a pass or return does so
FairSpec == Spec /\ WF_vars(ClosurePass) /\ WF_vars(ClosureReturn)

----------------------------------------------------------------------------
(* Specification SpecWG: is_well_graded(sets, base) on the family that     *)
(* create_family_from_base(base) returns, one generator of base per step.  *)

\* lines 28, 30 and 165
CallIsWellGraded ==
    /\ pc = "start"
    /\ \E B \in Families(MaxGen) :
          /\ base' = B
          /\ sets' = create_family_from_base(B)
          /\ todo' = B
    /\ out' = <<[kind |-> "checking"]>>
    /\ pc' = "wg_loop"
    /\ UNCHANGED <<uc_fam, curr_size, prev_size, sizes, X, verdict,
                   surmiseVars>>

\* (faulty variant of WGFail: the return of line 171 is missing)
WGFailNoReturn ==
    /\ pc = "wg_loop"
    /\ \E b \in todo :
          /\ ~ has_unique_atoms(project_family(sets, b))
          /\ out' = Append(out, [kind |-> "error", proj |-> curr_proj_str(b)])
          /\ todo' = todo \ {b}
    /\ verdict' = FALSE
    /\ pc' = "wg_loop"
    /\ UNCHANGED <<closureVars, sets, X, surmiseVars>>

\* lines 166-171: the projection by b fails the test
WGFail ==
    /\ pc = "wg_loop"
    /\ \E b \in todo :
          /\ ~ has_unique_atoms(project_family(sets, b))
          /\ out' = Append(out, [kind |-> "error", proj |-> curr_proj_str(b)])
          /\ todo' = todo \ {b}
    /\ verdict' = FALSE
    /\ pc' = "wg_done"
    /\ UNCHANGED <<closureVars, sets, X, surmiseVars>>

\* lines 166-169, 172-173: the projection by b passes the test
WGPass ==
    /\ pc = "wg_loop"
    /\ \E b \in todo :
          /\ has_unique_atoms(project_family(sets, b))
          /\ out' = Append(out, [kind |-> "pass", proj |-> curr_proj_str(b)])
          /\ todo' = todo \ {b}
    /\ UNCHANGED <<pc, closureVars, sets, X, verdict, surmiseVars>>

\* line 174
WGReturnTrue ==
    /\ pc = "wg_loop"
    /\ todo = {}
    /\ verdict' = TRUE
    /\ pc' = "wg_done"
    /\ UNCHANGED <<closureVars, sets, X, wgVars, surmiseVars>>

NextWG == CallIsWellGraded \/ WGFail \/ WGPass \/ WGReturnTrue

SpecWG == Init /\ [][NextWG]_vars

----------------------------------------------------------------------------
(* Specification SpecSurmise: get_surmise(sets), one member of sets per    *)
(* step, as called by has_unique_atoms(sets) and by get_base(sets).        *)

\* lines 104-108
CallGetSurmise ==
    /\ pc = "start"
    /\ \E F \in Families(MaxFam) :
          /\ sets' = F
          /\ qtodo' = UNION F
    /\ surmise' = NoSurmise
    /\ pc' = "next_q"
    /\ UNCHANGED <<closureVars, X, verdict, wgVars, q, scanned, q_surmise,
                   result>>

\* lines 109-110
NextElement ==
    /\ pc = "next_q"
    /\ \E e \in qtodo : q' = e
    /\ q_surmise' = {}
    /\ scanned' = {}
    /\ pc' = "scan"
    /\ UNCHANGED <<closureVars, sets, X, verdict, wgVars, qtodo, surmise,
                   result>>

\* lines 111-124
ScanSet ==
    /\ pc = "scan"
    /\ \E curr_set \in sets \ scanned :
          /\ q_surmise' \in q_scan(q, curr_set, q_surmise)
          /\ scanned' = scanned \cup {curr_set}
    /\ UNCHANGED <<pc, closureVars, sets, X, verdict, wgVars, q, qtodo,
                   surmise, result>>

\* line 125
StoreSurmise ==
    /\ pc = "scan"
    /\ scanned = sets
    /\ surmise' = [e \in DOMAIN surmise \cup {q} |->
                      IF e = q THEN q_surmise ELSE surmise[e]]
    /\ qtodo' = qtodo \ {q}
    /\ pc' = "next_q"
    /\ UNCHANGED <<closureVars, sets, X, verdict, wgVars, q, scanned,
                   q_surmise, result>>

\* line 126
ReturnSurmise ==
    /\ pc = "next_q"
    /\ qtodo = {}
    /\ pc' = "surmise"
    /\ UNCHANGED <<closureVars, sets, X, verdict, wgVars, surmiseVars>>

\* has_unique_atoms, lines 147-156
HasUniqueAtomsReturn ==
    /\ pc = "surmise"
    /\ verdict' = unique_atoms_verdict(surmise)
    /\ pc' = "atoms"
    /\ UNCHANGED <<closureVars, sets, X, wgVars, surmiseVars>>

\* get_base, lines 133-137
GetBaseReturn ==
    /\ pc = "surmise"
    /\ result' = base_of_surmise(surmise)
    /\ pc' = "base"
    /\ UNCHANGED <<closureVars, sets, X, verdict, wgVars, q, qtodo, scanned,
                   q_surmise, surmise>>

NextSurmise ==
    \/ CallGetSurmise \/ NextElement \/ ScanSet \/ StoreSurmise
    \/ ReturnSurmise \/ HasUniqueAtomsReturn \/ GetBaseReturn

SpecSurmise == Init /\ [][NextSurmise]_vars

----------------------------------------------------------------------------
(* Specification SpecX: is_X_closed(sets, X), one member A of sets per     *)
(* step of the outer loop.                                                 *)

CallIsXClosed ==
    /\ pc = "start"
    /\ \E F \in Families(MaxFam) : sets' = F
    /\ \E Y \in SUBSET Ground : X' = Y
    /\ scanned' = {}
    /\ pc' = "x_loop"
    /\ UNCHANGED <<closureVars, verdict, wgVars, q, qtodo, q_surmise,
                   surmise, result>>

\* lines 66-70: some B makes the test of line 69 true
XReturnFalse ==
    /\ pc = "x_loop"
    /\ \E A \in sets \ scanned :
          /\ XViolation(sets, X, A)
          /\ scanned' = scanned \cup {A}
    /\ verdict' = FALSE
    /\ pc' = "x_done"
    /\ UNCHANGED <<closureVars, sets, X, wgVars, q, qtodo, q_surmise,
                   surmise, result>>

\* lines 66-69: no B makes the test of line 69 true
XNextSet ==
    /\ pc = "x_loop"
    /\ \E A \in sets \ scanned :
          /\ ~ XViolation(sets, X, A)
          /\ scanned' = scanned \cup {A}
    /\ UNCHANGED <<pc, closureVars, sets, X, verdict, wgVars, q, qtodo,
                   q_surmise, surmise, result>>

\* line 71
XReturnTrue ==
    /\ pc = "x_loop"
    /\ scanned = sets
    /\ verdict' = TRUE
    /\ pc' = "x_done"
    /\ UNCHANGED <<closureVars, sets, X, wgVars, surmiseVars>>

NextX == CallIsXClosed \/ XReturnFalse \/ XNextSet \/ XReturnTrue

SpecX == Init /\ [][NextX]_vars

----------------------------------------------------------------------------
(* Notions the claims are stated with. *)

\* `sizes` records the size of uc_fam after construction and after every
\* pass of the loop; the number of passes made so far
Passes == Len(sizes) - 1

\* create_family_from_base has returned uc_fam
Returned == pc \in {"returned", "checked"}

\* the members of F that contain e and have no strict subset in F containing e
MinimalContaining(F, e) ==
    {A \in F : e \in A /\ ~ \E C \in F : e \in C /\ C \subseteq A /\ C # A}

\* number of elements in which two sets differ
Dist(A, B) == Cardinality((A \ B) \cup (B \ A))

\* the members of F joined to a member of R by a chain of members of F, each
\* differing from the next by exactly one element
RECURSIVE ChainReach(_, _)
ChainReach(F, R) ==
    LET R2 == R \cup {C \in F : \E D \in R : Dist(C, D) = 1}
    IN  IF R2 = R THEN R ELSE ChainReach(F, R2)

\* every pair of members is joined by some such chain
ChainJoined(F) == \A A \in F : F \subseteq ChainReach(F, {A})

\* A and B are joined by such a chain of exactly Dist(A, B) steps
RECURSIVE TightChain(_, _, _)
TightChain(F, A, B) ==
    \/ A = B
    \/ \E C \in F : /\ Dist(A, C) = 1
                    /\ Dist(C, B) = Dist(A, B) - 1
                    /\ TightChain(F, C, B)

WellGraded(F) == \A A \in F : \A B \in F : TightChain(F, A, B)

----------------------------------------------------------------------------
(* Claims checked under Spec / FairSpec. *)

\* C1: create_family_from_base(base) returns the smallest union-closed family
\* containing base: it contains base, it contains the union of any two of its
\* members, and each member is the union of a non-empty sub-collection of base.
C1_SmallestUnionClosed ==
    Returned =>
        /\ base \subseteq uc_fam
        /\ \A A \in uc_fam : \A B \in uc_fam : (A \cup B) \in uc_fam
        /\ \A A \in uc_fam : \E S \in (SUBSET base) \ {{}} : A = UNION S

C1_Witness ==
    /\ pc = "returned"
    /\ base = {{1}, {2}}
    /\ uc_fam = {{1}, {2}, {1, 2}}

\* C7: closing the returned family again returns the same family.
C7_Idempotent ==
    Returned => create_family_from_base(uc_fam) = uc_fam

C7_Witness ==
    /\ pc = "returned"
    /\ Passes >= 2
    /\ uc_fam # base
    /\ create_family_from_base(uc_fam) = uc_fam

\* C10: every projection of the returned family by a generator of base
\* contains the empty set and is closed under pairwise union.
C10_ProjectionPrecondition ==
    Returned =>
        \A b \in base :
            LET P == project_family(uc_fam, b)
            IN  /\ {} \in P
                /\ \A A \in P : \A B \in P : (A \cup B) \in P

C10_Witness ==
    /\ pc = "returned"
    /\ \E b \in base :
          /\ b # {}
          /\ Cardinality(project_family(uc_fam, b)) >= 3
          /\ Cardinality(project_family(uc_fam, b)) < Cardinality(uc_fam)
          /\ {} \in project_family(uc_fam, b)

\* what `sizes` and the returned family must satisfy in every state: every
\* pass but the last adds a set and the last pass adds none; an empty base
\* makes no pass and yields the empty family; a non-empty base that is
\* already union-closed makes exactly one pass, which adds nothing
C8_Sizes ==
    /\ \A i \in 1..(Len(sizes) - 2) : sizes[i] < sizes[i + 1]
    /\ (Returned /\ Passes >= 1) =>
           sizes[Len(sizes)] = sizes[Len(sizes) - 1]
    /\ (Returned /\ base = {}) => (uc_fam = {} /\ Passes = 0)
    /\ (Returned /\ base # {} /\ is_union_closed(base)) =>
           (Passes = 1 /\ uc_fam = base)

\* C8 (as amended): the loop of create_family_from_base terminates for every
\* base; uc_fam never loses a set; its size grows in every pass but the last
\* and the loop exits after the first pass that adds no set; an empty base
\* makes no pass at all and yields the empty family; a non-empty base that
\* is already union-closed makes exactly one pass, which adds nothing.
C8_Terminates ==
    /\ []C8_Sizes
    /\ [][uc_fam \subseteq uc_fam']_vars
    /\ (pc = "closure") ~> (pc = "returned")

\* C8 (as stated): every base that is already union-closed, the empty one
\* included, terminates after exactly one pass that adds nothing.
C8_AsStated ==
    (Returned /\ is_union_closed(base)) =>
        (Passes = 1 /\ uc_fam = base)

C8_Witness ==
    /\ pc = "returned"
    /\ Passes = 3
    /\ sizes[1] < sizes[2] /\ sizes[2] < sizes[3] /\ sizes[3] = sizes[4]

\* C2 (as amended): is_well_graded(F, base) is true exactly when every pair
\* A, B of members of F is joined by a chain of members of F, each differing
\* from the next by exactly one element, that has exactly |A symmetric
\* difference B| steps.
C2_WellGradedTight ==
    pc = "checked" => (verdict <=> WellGraded(uc_fam))

\* C2 (as stated): is_well_graded(F, base) is true exactly when every pair of
\* members of F is joined by some chain of members each differing from the
\* next by exactly one element.
C2_AsStated ==
    pc = "checked" => (verdict <=> ChainJoined(uc_fam))

C2_Witness ==
    /\ pc = "checked"
    /\ verdict
    /\ Cardinality(uc_fam) >= 5
    /\ {} \notin uc_fam
    /\ WellGraded(uc_fam)

----------------------------------------------------------------------------
(* Claims checked under SpecSurmise. *)

\* get_surmise has returned
SurmiseReturned == pc \in {"surmise", "atoms", "base"}

\* C3: whatever the order in which the members of the family are scanned,
\* the surmise of every element e of the union of the family is exactly the
\* set of members that contain e and have no strict subset in the family
\* containing e; so no two sets of it are subset-comparable, and each
\* contains e and is a member of the family.
C3_SurmiseMinimal ==
    /\ \A e \in DOMAIN surmise :
          /\ surmise[e] = MinimalContaining(sets, e)
          /\ \A A \in surmise[e] : e \in A /\ A \in sets
          /\ \A A \in surmise[e] : \A B \in surmise[e] :
                A \subseteq B => A = B
    /\ SurmiseReturned => DOMAIN surmise = UNION sets

C3_Witness ==
    /\ SurmiseReturned
    /\ \E e \in DOMAIN surmise :
          /\ Cardinality(surmise[e]) = 2
          /\ \E A \in sets \ surmise[e] : e \in A

\* the (element, minimal set) associations of the surmise system of F
Associations(F) ==
    {p \in (UNION F) \X F : p[2] \in MinimalContaining(F, p[1])}

\* C4: has_unique_atoms returns true exactly when no set is a minimal set of
\* two different elements, which is when the number of (element, minimal set)
\* associations equals the number of distinct minimal sets.
C4_UniqueAtoms ==
    pc = "atoms" =>
        /\ verdict <=>
             ~ \E e1 \in UNION sets : \E e2 \in (UNION sets) \ {e1} :
                 MinimalContaining(sets, e1) \cap MinimalContaining(sets, e2)
                     # {}
        /\ verdict <=>
             Cardinality(Associations(sets))
                 = Cardinality({p[2] : p \in Associations(sets)})

C4_Witness ==
    /\ pc = "atoms"
    /\ ~ verdict
    /\ \E e1 \in UNION sets : \E e2 \in (UNION sets) \ {e1} :
          MinimalContaining(sets, e1) \cap MinimalContaining(sets, e2) # {}

\* C6 (as amended): get_base(F) is the set of all sets that are a minimal set
\* of some element, and for a union-closed F its union-closure rebuilds F
\* without the empty set: create_family_from_base(get_base(F)) == F \ {{}},
\* which is F exactly when the empty set is no member of F.
C6_BaseRebuilds ==
    pc = "base" =>
        /\ result = {A \in sets : \E e \in A : A \in MinimalContaining(sets, e)}
        /\ is_union_closed(sets) =>
               create_family_from_base(result) = sets \ {{}}

\* C6 (as stated): for every union-closed F the union-closure of get_base(F)
\* is F.
C6_AsStated ==
    pc = "base" =>
        /\ result = {A \in sets : \E e \in A : A \in MinimalContaining(sets, e)}
        /\ is_union_closed(sets) => create_family_from_base(result) = sets

C6_Witness ==
    /\ pc = "base"
    /\ is_union_closed(sets)
    /\ Cardinality(sets) = 3
    /\ {} \notin sets
    /\ result # sets
    /\ create_family_from_base(result) = sets

----------------------------------------------------------------------------
(* Claim checked under SpecX. *)

----------------------------------------------------------------------------
(* Claim checked under SpecWG. *)

\* the report lines after the heading
Report == Tail(out)

\* the generator a report line names
Named(line) == {line.proj.elems[i] : i \in 1..Len(line.proj.elems)}

\* C9: generators are examined one at a time, each examined one gets one
\* line; a failing projection is reported by an ERROR line that is the last
\* line, with the verdict false and nothing examined afterwards; the verdict
\* is true only after a pass line for every generator of base.
C9_Report ==
    pc \in {"wg_loop", "wg_done"} =>
        LET n == Len(Report)
        IN  /\ out[1].kind = "checking"
            /\ {Named(Report[i]) : i \in 1..n} = base \ todo
            /\ n = Cardinality(base \ todo)
            /\ \A i \in 1..n :
                  /\ Report[i].kind \in {"pass", "error"}
                  /\ Report[i].kind = "pass" <=>
                         has_unique_atoms(project_family(sets, Named(Report[i])))
            /\ \A i \in 1..(n - 1) : Report[i].kind = "pass"
            /\ pc = "wg_loop" => \A i \in 1..n : Report[i].kind = "pass"
            /\ (pc = "wg_done" /\ ~ verdict) =>
                   (n >= 1 /\ Report[n].kind = "error")
            /\ (pc = "wg_done" /\ verdict) =>
                   /\ todo = {}
                   /\ n = Cardinality(base)
                   /\ \A i \in 1..n : Report[i].kind = "pass"

C9_Witness ==
    /\ pc = "wg_done"
    /\ ~ verdict
    /\ Len(Report) = 2
    /\ Report[1].kind = "pass"
    /\ Report[2].kind = "error"
    /\ todo # {}

====
